---- MODULE Spec2Model ----
(***************************************************************************)
(* Model of emmet_sublime.py, the adapter between the Sublime Text host    *)
(* and the Emmet engine.  The engine, the matchers, the math scanner and   *)
(* the host API (views, regions, settings store) are collaborators: their  *)
(* answers are chosen nondeterministically among the answers they can      *)
(* give, and the adapter's own code is translated statement by statement.  *)
(*                                                                         *)
(* Text is a sequence of one-character strings.  A value that may be None  *)
(* is None (the empty tuple) or Some(x) (the one-element tuple); a key a    *)
(* dict may lack holds "absent" when missing.                               *)
(***************************************************************************)
EXTENDS Integers, Sequences, FiniteSets, TLC

VARIABLES
    \* ---- module globals and the host state they depend on
    settings,          \* global `settings`: 0 is None, n > 0 the n-th handle loaded
    emmet_cache,       \* global `emmet_cache`: the set of keys memoized in it
    load_count,        \* calls of sublime.load_settings so far
    listeners,         \* calls of settings.add_on_change so far
    store_config,      \* the 'config' key of the host's settings store
    has_view,          \* whether the active window has an active view
    fresh,             \* a configuration change happened, and no engine call since
    \* ---- the last call of get_settings / expand / handle_settings_change
    last_op,
    cache_on_entry,    \* emmet_cache when the last operation began
    gs_result,         \* what get_settings returned
    exp_outcome,       \* how expand() ended
    engine_called,     \* whether expand() reached expand_abbreviation
    engine_cache_arg,  \* opt['cache'] as handed to the engine
    engine_config_arg, \* global_config as handed to the engine
    exp_field,         \* opt['options']['output.field']
    exp_format,        \* opt['options']['output.format']
    \* ---- get_tag_context
    matched_tag,       \* what html_matcher.match answers for the view
    tag_pc,
    tag_xml,           \* the xml flag handed to the matcher
    tag_ctx,           \* the returned context
    \* ---- evaluate_math
    math_code,
    math_pc,
    math_expr,         \* what extract_math answered
    math_outcome,      \* how evaluate_math ended
    math_result,       \* what it returned
    \* ---- extract_abbreviation
    buf,               \* the view's buffer
    view_syntax,       \* the syntax name syntax.info finds for this view
    ext_pc,
    ext_loc,           \* the `loc` argument
    ext_opt_in,        \* the `opt` argument
    ext_begin,         \* region.begin()
    eng_text,          \* text handed to emmet.extract
    eng_pos,           \* offset handed to emmet.extract
    eng_opt,           \* options handed to emmet.extract
    eng_ret,           \* what emmet.extract answered
    ext_outcome,
    ext_result,        \* what extract_abbreviation returned
    resolver_calls,    \* calls of get_options during the call
    engine_calls,      \* calls of emmet.extract during the call
    \* ---- get_css_context
    css_doc,           \* per character: its scope kind, and whether a new scope starts
    css_pt,
    css_pc,
    ctx_pos,
    scope_range,
    css_result

hostVars == <<settings, emmet_cache, load_count, listeners, store_config,
              has_view, fresh, last_op, cache_on_entry, gs_result, exp_outcome,
              engine_called, engine_cache_arg, engine_config_arg, exp_field,
              exp_format>>
tagVars  == <<matched_tag, tag_pc, tag_xml, tag_ctx>>
mathVars == <<math_code, math_pc, math_expr, math_outcome, math_result>>
extVars  == <<buf, view_syntax, ext_pc, ext_loc, ext_opt_in, ext_begin, eng_text,
              eng_pos, eng_opt, eng_ret, ext_outcome, ext_result,
              resolver_calls, engine_calls>>
cssVars  == <<css_doc, css_pt, css_pc, ctx_pos, scope_range, css_result>>
vars     == <<hostVars, tagVars, mathVars, extVars, cssVars>>

None == <<>>
Some(x) == <<x>>

Min(a, b) == IF a <= b THEN a ELSE b
Max(a, b) == IF a >= b THEN a ELSE b

\* All sequences over S of length at most n.
SeqsUpTo(S, n) == UNION {[1..k -> S] : k \in 0..n}

(***************************************************************************)
(* Globals: get_settings, expand, handle_settings_change                   *)
(***************************************************************************)

\* Abbreviations the editor may ask to expand (cache keys of the engine).
Abbrs == {"ul", "div"}

\* Values the host's settings store may hold under 'config'.
ConfigValues == {"absent", "cfgA", "cfgB"}

\* The `config` argument of expand(): None, or a dict with these entries.
ExpandConfigs ==
    {None} \cup {Some(c) : c \in [preview : BOOLEAN, inline : BOOLEAN,
                                 options : {"absent", "format_on", "format_off"}]}

\* settings.get(key, default) with default None, for key 'config'.
SettingsGet == IF store_config = "absent" THEN "None" ELSE store_config

InitHost ==
    /\ settings = 0
    /\ emmet_cache = {}
    /\ load_count = 0
    /\ listeners = 0
    /\ store_config \in ConfigValues
    /\ has_view \in BOOLEAN
    /\ fresh = FALSE
    /\ last_op = "none"
    /\ cache_on_entry = {}
    /\ gs_result = "None"
    /\ exp_outcome = "none"
    /\ engine_called = FALSE
    /\ engine_cache_arg = {}
    /\ engine_config_arg = "unbound"
    /\ exp_field = "none"
    /\ exp_format = TRUE

IdleHost ==
    /\ settings = 0
    /\ emmet_cache = {}
    /\ load_count = 0
    /\ listeners = 0
    /\ store_config = "absent"
    /\ has_view = TRUE
    /\ fresh = FALSE
    /\ last_op = "none"
    /\ cache_on_entry = {}
    /\ gs_result = "None"
    /\ exp_outcome = "none"
    /\ engine_called = FALSE
    /\ engine_cache_arg = {}
    /\ engine_config_arg = "unbound"
    /\ exp_field = "none"
    /\ exp_format = TRUE

\* Lines 25-27: the lazy load, and the registration of the listener.
LoadAlways ==
    /\ settings' = load_count + 1
    /\ load_count' = load_count + 1
    /\ listeners' = listeners + 1

LoadOnce ==
    IF settings = 0
    THEN /\ settings' = load_count + 1
         /\ load_count' = load_count + 1
         /\ listeners' = listeners + 1
    ELSE UNCHANGED <<settings, load_count, listeners>>

\* get_settings('config') called by the host or another plugin module.
get_settings ==
    /\ LoadOnce
    /\ gs_result' = SettingsGet
    /\ last_op' = "get_settings"
    /\ cache_on_entry' = emmet_cache
    /\ UNCHANGED <<emmet_cache, store_config, has_view, fresh, exp_outcome,
                   engine_called, engine_cache_arg, engine_config_arg,
                   exp_field, exp_format>>
    /\ UNCHANGED <<tagVars, mathVars, extVars, cssVars>>

\* Line 53: the output-field strategy.
OutputField(config) ==
    IF config # None /\ config[1].preview THEN "field_preview" ELSE "field"

\* Lines 55 and 60-61: the format flag, overridden by config['options'].
OutputFormat(config) ==
    IF config = None THEN TRUE
    ELSE IF config[1].options = "format_on" THEN TRUE
    ELSE IF config[1].options = "format_off" THEN FALSE
    ELSE ~config[1].inline

\* Line 51: the cache put into opt.
CacheArg == emmet_cache

\* expand(abbr, config), lines 48-68.
expand ==
    \E abbr \in Abbrs, config \in ExpandConfigs,
       memoize \in BOOLEAN, engine_ok \in BOOLEAN :
        /\ last_op' = "expand"
        /\ cache_on_entry' = emmet_cache
        /\ exp_field' = OutputField(config)
        /\ exp_format' = OutputFormat(config)
        /\ UNCHANGED <<store_config, has_view>>
        /\ IF has_view
           THEN \* lines 65-68: global_config is bound, the engine runs
                /\ LoadOnce
                /\ gs_result' = SettingsGet
                /\ engine_called' = TRUE
                /\ engine_cache_arg' = CacheArg
                /\ engine_config_arg' = SettingsGet
                /\ emmet_cache' =
                       IF memoize THEN emmet_cache \cup {abbr} ELSE emmet_cache
                /\ exp_outcome' = IF engine_ok THEN "snippet" ELSE "engine_error"
                /\ fresh' = FALSE
           ELSE \* line 68 reads the local global_config, never assigned
                /\ engine_called' = FALSE
                /\ engine_config_arg' = "unbound"
                /\ exp_outcome' = "UnboundLocalError"
                /\ UNCHANGED <<settings, load_count, listeners, gs_result,
                               engine_cache_arg, emmet_cache, fresh>>
        /\ UNCHANGED <<tagVars, mathVars, extVars, cssVars>>

\* Lines 250-252: the new value of the global.
ClearedCacheKept == emmet_cache

ClearedCache == {}

\* The user edits the configuration; the host calls the listener registered
\* by get_settings, if any.
handle_settings_change ==
    /\ \E c \in ConfigValues \ {store_config} : store_config' = c
    /\ last_op' = "settings_change"
    /\ cache_on_entry' = emmet_cache
    /\ IF listeners > 0
       THEN emmet_cache' = ClearedCache
       ELSE UNCHANGED emmet_cache
    /\ fresh' = TRUE
    /\ UNCHANGED <<settings, load_count, listeners, has_view, gs_result, exp_outcome,
                   engine_called, engine_cache_arg, engine_config_arg,
                   exp_field, exp_format>>
    /\ UNCHANGED <<tagVars, mathVars, extVars, cssVars>>

\* The host opens or closes the active view.
view_change ==
    /\ has_view' = ~has_view
    /\ last_op' = "view_change"
    /\ cache_on_entry' = emmet_cache
    /\ UNCHANGED <<settings, emmet_cache, load_count, listeners, store_config,
                   fresh, gs_result, exp_outcome, engine_called,
                   engine_cache_arg, engine_config_arg, exp_field, exp_format>>
    /\ UNCHANGED <<tagVars, mathVars, extVars, cssVars>>

(***************************************************************************)
(* get_tag_context                                                         *)
(***************************************************************************)

DQ == "\""
SQ == "'"
Quotes == {DQ, SQ}

\* Characters attribute values are made of, and the longest value modelled.
ValueChars == {DQ, SQ, "a"}
MaxValueLen == 3
MaxAttrs == 2
AttrNames == {"id", "class"}

AttrValues == SeqsUpTo(ValueChars, MaxValueLen)

\* What html_matcher.match may answer: None, or a tag.
MatchedTags ==
    {None} \cup
    {Some(t) : t \in
        [name : {"div"},
         attributes : SeqsUpTo([name : AttrNames, value : AttrValues], MaxAttrs),
         open : {<<0, 5>>},
         close : {None, Some(<<7, 13>>)}]}

\* Python's str.lstrip(c) and str.rstrip(c) for a single character c.
RECURSIVE LStrip(_, _)
LStrip(s, c) == IF s # <<>> /\ Head(s) = c THEN LStrip(Tail(s), c) ELSE s

RECURSIVE RStrip(_, _)
RStrip(s, c) ==
    IF s # <<>> /\ s[Len(s)] = c THEN RStrip(SubSeq(s, 1, Len(s) - 1), c) ELSE s

\* str.strip(c)
Strip(s, c) == RStrip(LStrip(s, c), c)

\* Lines 151-154: the unquoting of one attribute value.
Unquote(value) ==
    IF value # <<>> /\ value[1] \in Quotes THEN Strip(value, value[1]) ELSE value

\* Lines 149-155: the attributes dict, filled in the matcher's order (a later
\* attribute of the same name overwrites an earlier one).
RECURSIVE AttrDict(_)
AttrDict(attrs) ==
    IF attrs = <<>> THEN [n \in {} |-> <<>>]
    ELSE LET last == attrs[Len(attrs)]
             rest == AttrDict(SubSeq(attrs, 1, Len(attrs) - 1))
         IN [n \in DOMAIN rest \cup {last.name} |->
                IF n = last.name THEN Unquote(last.value) ELSE rest[n]]

\* Line 247: to_region; a region is kept as the pair <<a, b>> it was built from.
to_region(rng) == <<rng[1], rng[2]>>

InitTag ==
    /\ matched_tag \in MatchedTags
    /\ tag_pc = "start"
    /\ tag_xml = FALSE
    /\ tag_ctx = None

IdleTag ==
    /\ matched_tag = None
    /\ tag_pc = "start"
    /\ tag_xml = FALSE
    /\ tag_ctx = None

\* get_tag_context(view, pt, xml), lines 126-157.
get_tag_context ==
    /\ tag_pc = "start"
    /\ tag_pc' = "done"
    /\ \E xml \in {None, Some(TRUE), Some(FALSE)}, syntax_is_xml \in BOOLEAN :
          tag_xml' = IF xml = None THEN syntax_is_xml ELSE xml[1]
    /\ tag_ctx' =
          IF matched_tag = None THEN None
          ELSE LET t == matched_tag[1] IN
               Some([name |-> t.name,
                     attributes |-> AttrDict(t.attributes),
                     open |-> to_region(t.open),
                     close |-> IF t.close = None THEN None
                               ELSE Some(to_region(t.close[1]))])
    /\ UNCHANGED matched_tag
    /\ UNCHANGED <<hostVars, mathVars, extVars, cssVars>>

(***************************************************************************)
(* evaluate_math                                                           *)
(***************************************************************************)

MathChars == {"1", "0", "/"}
MaxMathLen == 3

\* Results evaluate() may give, in units of 1/100000 (so that '%.4f' rounds).
MathValues == {0, 200000, 66667, 50000, 314159}

\* '%.4f' % result: the number rounded to 4 decimals, as <<integer part, the
\* four decimal digits>>.
Format4(v) ==
    LET r == (v + 5) \div 10
    IN <<r \div 10000,
         <<(r \div 1000) % 10, (r \div 100) % 10, (r \div 10) % 10, r % 10>>>>

RECURSIVE RStripZeros(_)
RStripZeros(ds) ==
    IF ds # <<>> /\ ds[Len(ds)] = 0
    THEN RStripZeros(SubSeq(ds, 1, Len(ds) - 1)) ELSE ds

\* Line 120: .rstrip('0').rstrip('.'), on the digits after the point; an
\* empty digit sequence means the point was stripped too.
Snippet(v) == <<Format4(v)[1], RStripZeros(Format4(v)[2])>>

\* Line 115: code[start:end]
Slice(s, start, end) == SubSeq(s, Min(start, Len(s)) + 1, Min(end, Len(s)))

InitMath ==
    /\ math_code \in SeqsUpTo(MathChars, MaxMathLen)
    /\ math_pc = "start"
    /\ math_expr = "none"
    /\ math_outcome = "none"
    /\ math_result = None

IdleMath ==
    /\ math_code = <<>>
    /\ math_pc = "start"
    /\ math_expr = "none"
    /\ math_outcome = "none"
    /\ math_result = None

\* What extract_math may answer for a text: it raises, finds nothing, or
\* finds a span <<start, end>> of the text.
ExtractMathAnswers(code) ==
    {<<"raise">>, <<"None">>} \cup
    {<<"span", se[1], se[2]>> : se \in
        {x \in (0..Len(code)) \X (0..Len(code)) : x[1] < x[2]}}

\* What evaluate may answer for an expression: a number, or it raises.
EvaluateAnswers == {<<"raise">>} \cup {<<"value", v>> : v \in MathValues}

\* evaluate_math(code, pos, options), lines 109-123.
evaluate_math ==
    /\ math_pc = "start"
    /\ math_pc' = "done"
    /\ \E expr \in ExtractMathAnswers(math_code), val \in EvaluateAnswers :
          /\ math_expr' = expr[1]
          /\ IF expr[1] = "raise"
             THEN \* line 111 is outside the try
                  /\ math_outcome' = "raised"
                  /\ math_result' = None
             ELSE IF expr[1] = "None" \/ val[1] = "raise"
             THEN \* `if expr` fails, or the except clause swallows
                  /\ math_outcome' = "returned"
                  /\ math_result' = None
             ELSE /\ math_outcome' = "returned"
                  /\ math_result' =
                        Some([start |-> expr[2], end |-> expr[3],
                              text |-> Slice(math_code, expr[2], expr[3]),
                              result |-> val[2], snippet |-> Snippet(val[2])])
    /\ UNCHANGED math_code
    /\ UNCHANGED <<hostVars, tagVars, extVars, cssVars>>

(***************************************************************************)
(* extract_abbreviation, get_options, to_region                            *)
(***************************************************************************)

NL == "\n"
BufChars == {"a", NL}
MaxBufLen == 3

Buffers == SeqsUpTo(BufChars, MaxBufLen)

\* sublime.Region(a, b).begin() and .end()
RegionBegin(r) == Min(r[1], r[2])
RegionEnd(r) == Max(r[1], r[2])

\* view.line(pt): the line containing pt, without its newline.
Line(b, pt) ==
    LET lo == CHOOSE i \in 0..pt :
                 /\ i = 0 \/ b[i] = NL
                 /\ \A k \in (i + 1)..pt : b[k] # NL
        hi == CHOOSE j \in pt..Len(b) :
                 /\ j = Len(b) \/ b[j + 1] = NL
                 /\ \A k \in (pt + 1)..j : b[k] # NL
    IN <<lo, hi>>

\* view.substr(region)
Substr(b, r) == SubSeq(b, RegionBegin(r) + 1, Min(RegionEnd(r), Len(b)))

\* The `loc` argument: a character location, a two-element list, a Region,
\* or a value of another type.
Locs(b) ==
    [kind : {"int"}, pt : 0..Len(b)]
    \cup [kind : {"list", "region"}, a : 0..Len(b), b : 0..Len(b)]
    \cup {[kind |-> "other"]}

\* The `opt` argument: None, or the caller's options.
CallerOpts ==
    {None} \cup
    {Some(o) : o \in
        [syntax : {"html", "css"}, type : {"markup", "stylesheet"},
         lookAhead : {"absent", "true", "false"},
         inline : {"absent"}, prefix : {"absent"}, jsx : {"absent"}]}

SyntaxNames == {"html", "css", "jsx"}

\* Line 15
JSX_PREFIX == "<"

\* get_options(view, pt), lines 177-189, without context.
get_options(syntax_name, is_inline) ==
    [syntax |-> syntax_name,
     type |-> IF syntax_name = "css" THEN "stylesheet" ELSE "markup",
     lookAhead |-> "absent",
     inline |-> IF is_inline THEN "true" ELSE "false",
     prefix |-> IF syntax_name = "jsx" THEN JSX_PREFIX ELSE "absent",
     jsx |-> IF syntax_name = "jsx" THEN "true" ELSE "absent"]

\* Lines 209-210: a list or tuple becomes a Region.
AsRegion(loc) ==
    IF loc.kind = "list"
    THEN [kind |-> "region", a |-> to_region(<<loc.a, loc.b>>)[1],
          b |-> to_region(<<loc.a, loc.b>>)[2]]
    ELSE loc

\* Lines 212-219: the effective offset.
EffectivePtBegin(loc) ==
    IF loc.kind = "int" THEN loc.pt ELSE RegionBegin(<<loc.a, loc.b>>)

EffectivePt(loc) ==
    IF loc.kind = "int" THEN loc.pt ELSE RegionEnd(<<loc.a, loc.b>>)

\* Lines 212-219: the scanned region.
ScanRegion(b, loc) ==
    IF loc.kind = "int" THEN Line(b, loc.pt) ELSE <<loc.a, loc.b>>

\* Lines 229-232: no look-ahead for stylesheets.
LookAheadKept(opt) == opt

LookAheadOverride(opt) ==
    IF opt.type = "stylesheet" THEN [opt EXCEPT !.lookAhead = "false"] ELSE opt

\* Lines 237-239: the match made absolute.
TranslateNoLocation(m, begin) ==
    [start |-> m.start + begin, end |-> m.end + begin, location |-> m.location]

Translate(m, begin) ==
    [start |-> m.start + begin, end |-> m.end + begin,
     location |-> m.location + begin]

\* What emmet.extract may answer for a text: nothing, a ScannerException, or
\* a match inside the text.
ExtractAnswers(text) ==
    {<<"None">>, <<"raise">>} \cup
    {<<"match", m>> : m \in
        {x \in [start : 0..Len(text), end : 0..Len(text),
                location : 0..Len(text)] :
            x.start <= x.location /\ x.location <= x.end}}

InitExtract ==
    /\ buf \in Buffers
    /\ view_syntax \in SyntaxNames
    /\ ext_pc = "start"
    /\ ext_loc = [kind |-> "none"]
    /\ ext_opt_in = None
    /\ ext_begin = 0
    /\ eng_text = <<>>
    /\ eng_pos = 0
    /\ eng_opt = None
    /\ eng_ret = <<"none">>
    /\ ext_outcome = "none"
    /\ ext_result = None
    /\ resolver_calls = 0
    /\ engine_calls = 0

IdleExtract ==
    /\ buf = <<>>
    /\ view_syntax = "html"
    /\ ext_pc = "start"
    /\ ext_loc = [kind |-> "none"]
    /\ ext_opt_in = None
    /\ ext_begin = 0
    /\ eng_text = <<>>
    /\ eng_pos = 0
    /\ eng_opt = None
    /\ eng_ret = <<"none">>
    /\ ext_outcome = "none"
    /\ ext_result = None
    /\ resolver_calls = 0
    /\ engine_calls = 0

\* extract_abbreviation(view, loc, opt), lines 201-242.
extract_abbreviation ==
    /\ ext_pc = "start"
    /\ ext_pc' = "done"
    /\ \E loc0 \in Locs(buf), opt0 \in CallerOpts, is_inline \in BOOLEAN :
        LET loc == AsRegion(loc0) IN
        /\ ext_loc' = loc0
        /\ ext_opt_in' = opt0
        /\ IF loc.kind = "other"
           THEN \* line 221
                /\ ext_outcome' = "returned"
                /\ ext_result' = None
                /\ UNCHANGED <<ext_begin, eng_text, eng_pos, eng_opt, eng_ret,
                               resolver_calls, engine_calls>>
           ELSE LET pt == EffectivePt(loc)
                    region == ScanRegion(buf, loc)
                    text == Substr(buf, region)
                    begin == RegionBegin(region)
                    opt1 == IF opt0 = None
                            THEN get_options(view_syntax, is_inline)
                            ELSE opt0[1]
                    opt == LookAheadOverride(opt1)
                IN /\ ext_begin' = begin
                   /\ resolver_calls' = IF opt0 = None THEN 1 ELSE 0
                   /\ engine_calls' = 1
                   /\ eng_text' = text
                   /\ eng_pos' = pt - begin
                   /\ eng_opt' = Some(opt)
                   /\ \E ans \in ExtractAnswers(text) :
                        /\ eng_ret' = ans
                        /\ IF ans[1] = "raise"
                           THEN /\ ext_outcome' = "raised"
                                /\ ext_result' = None
                           ELSE IF ans[1] = "None"
                           THEN /\ ext_outcome' = "returned"
                                /\ ext_result' = None
                           ELSE /\ ext_outcome' = "returned"
                                /\ ext_result' =
                                      <<Translate(ans[2], begin), opt>>
    /\ UNCHANGED <<buf, view_syntax>>
    /\ UNCHANGED <<hostVars, tagVars, mathVars, cssVars>>

(***************************************************************************)
(* get_css_context                                                         *)
(***************************************************************************)

\* Scope classifications the walk distinguishes: meta.property-value,
\* meta.property-name, section.property-list, meta.selector, anything else.
ScopeKinds == {"value", "name", "section", "selector", "other"}
MaxDocLen == 4

\* A stylesheet: for each character its classification, and whether a new
\* scope of the same classification starts at it.
CssDocs ==
    {d \in SeqsUpTo([kind : ScopeKinds, brk : BOOLEAN], MaxDocLen) :
        /\ d # <<>>
        /\ ~d[1].brk
        /\ \A i \in 2..Len(d) : d[i].brk => d[i].kind = d[i - 1].kind}

\* Whether a scope starts at 0-based position p.
ScopeStartsAt(d, p) ==
    p = 0 \/ d[p + 1].brk \/ d[p + 1].kind # d[p].kind

\* view.extract_scope(p): the extent <<begin, end>> of the scope of the
\* character at p.
extract_scope(d, p) ==
    LET lo == CHOOSE i \in 0..p :
                 /\ ScopeStartsAt(d, i)
                 /\ \A k \in (i + 1)..p : ~ScopeStartsAt(d, k)
        hi == CHOOSE j \in (p + 1)..Len(d) :
                 /\ j = Len(d) \/ ScopeStartsAt(d, j)
                 /\ \A k \in (p + 1)..(j - 1) : ~ScopeStartsAt(d, k)
    IN <<lo, hi>>

\* view.match_selector(p, selector)
match_selector(d, p, kind) == d[p + 1].kind = kind

\* view.substr(region) on the stylesheet; its character at position p is p.
CssSubstr(r) == [i \in 1..(r[2] - r[1]) |-> r[1] + i - 1]

\* Lines 165 and 173: the position before a scope.
PrevPosEnd(r) == r[2] - 1

PrevPos(r) == r[1] - 1

\* Lines 166-167: the loop's stop at a section boundary or a selector.
AtBoundarySectionOnly(d, p) == match_selector(d, p, "section")

AtBoundary(d, p) ==
    match_selector(d, p, "section") \/ match_selector(d, p, "selector")

InitCss ==
    /\ css_doc \in CssDocs
    /\ css_pt \in 0..(Len(css_doc) - 1)
    /\ css_pc = "start"
    /\ ctx_pos = css_pt
    /\ scope_range = <<0, 0>>
    /\ css_result = None

IdleCss ==
    /\ css_doc = <<[kind |-> "other", brk |-> FALSE]>>
    /\ css_pt = 0
    /\ css_pc = "start"
    /\ ctx_pos = 0
    /\ scope_range = <<0, 0>>
    /\ css_result = None

\* Lines 162-165: the entry of get_css_context(view, pt).
css_enter ==
    /\ css_pc = "start"
    /\ IF match_selector(css_doc, css_pt, "value")
       THEN /\ scope_range' = extract_scope(css_doc, css_pt)
            /\ ctx_pos' = PrevPos(extract_scope(css_doc, css_pt))
            /\ css_pc' = "loop"
       ELSE /\ css_pc' = "done"
            /\ UNCHANGED <<scope_range, ctx_pos>>
    /\ UNCHANGED <<css_doc, css_pt, css_result>>
    /\ UNCHANGED <<hostVars, tagVars, mathVars, extVars>>

\* Lines 166-174: the loop test and one iteration of the loop.
css_walk ==
    /\ css_pc = "loop"
    /\ IF ctx_pos >= 0 /\ ~AtBoundary(css_doc, ctx_pos)
       THEN LET r == extract_scope(css_doc, ctx_pos) IN
            /\ scope_range' = r
            /\ IF match_selector(css_doc, ctx_pos, "name")
               THEN /\ css_result' = Some([name |-> CssSubstr(r)])
                    /\ css_pc' = "done"
                    /\ UNCHANGED ctx_pos
               ELSE /\ ctx_pos' = PrevPos(r)
                    /\ UNCHANGED <<css_pc, css_result>>
       ELSE /\ css_pc' = "done"
            /\ UNCHANGED <<scope_range, ctx_pos, css_result>>
    /\ UNCHANGED <<css_doc, css_pt>>
    /\ UNCHANGED <<hostVars, tagVars, mathVars, extVars>>

(***************************************************************************)
(* Specifications                                                          *)
(***************************************************************************)

\* The globals under any interleaving of calls and host events.
Init == InitHost /\ IdleTag /\ IdleMath /\ IdleExtract /\ IdleCss

Next == get_settings \/ expand \/ handle_settings_change \/ view_change

Spec == Init /\ [][Next]_vars

\* One call of get_tag_context on any matcher answer.
InitTagCall == IdleHost /\ InitTag /\ IdleMath /\ IdleExtract /\ IdleCss

NextTag == get_tag_context

SpecTag == InitTagCall /\ [][NextTag]_vars

\* One call of evaluate_math on any text.
InitMathCall == IdleHost /\ IdleTag /\ InitMath /\ IdleExtract /\ IdleCss

NextMath == evaluate_math

SpecMath == InitMathCall /\ [][NextMath]_vars

\* One call of extract_abbreviation on any buffer.
InitExtractCall == IdleHost /\ IdleTag /\ IdleMath /\ InitExtract /\ IdleCss

NextExtract == extract_abbreviation

SpecExtract == InitExtractCall /\ [][NextExtract]_vars

\* One call of get_css_context on any stylesheet; the call is synchronous,
\* so a step that can be taken is taken.
InitCssCall == IdleHost /\ IdleTag /\ IdleMath /\ IdleExtract /\ InitCss

NextCss == css_enter \/ css_walk

SpecCss == InitCssCall /\ [][NextCss]_vars /\ WF_vars(NextCss)

(***************************************************************************)
(* Properties                                                              *)
(***************************************************************************)

\* C1: a configuration change leaves emmet_cache empty whatever it held, and
\* the next expand() that reaches the engine hands it that empty cache.
C1_CacheEmptyAfterChange ==
    [][/\ store_config' # store_config => emmet_cache' = {}
       /\ (fresh /\ last_op' = "expand" /\ engine_called')
             => engine_cache_arg' = {}]_vars

\* A configuration change that found a non-empty cache and emptied it.
C1_Witness ==
    /\ last_op = "settings_change"
    /\ cache_on_entry # {}
    /\ emmet_cache = {}

\* C3: expand() never fails for want of a global configuration: it reaches
\* the engine with a defined global_config in every host state.
C3_ExpandSurvivesNoConfig ==
    last_op = "expand" =>
        /\ engine_called
        /\ engine_config_arg # "unbound"
        /\ exp_outcome # "UnboundLocalError"

\* C9: the settings are loaded at most once and the listener registered at
\* most once, and a loaded handle is never replaced.
C9_LoadedOnce ==
    /\ [](/\ load_count <= 1
          /\ listeners <= 1
          /\ (settings = 0 <=> load_count = 0))
    /\ [][settings # 0 => settings' = settings]_vars

\* get_settings called again after an expand() had loaded the settings and
\* filled the cache.
C9_Witness ==
    /\ last_op = "get_settings"
    /\ cache_on_entry # {}
    /\ load_count = 1
    /\ listeners = 1
    /\ settings = 1

\* What C2 asks of one value: a value between matching quotes loses exactly
\* its first and last character, any other value is unchanged (a lone quote
\* character may come out either way).
OnePairUnquoted(v, out) ==
    IF Len(v) >= 2 /\ v[1] \in Quotes /\ v[Len(v)] = v[1]
    THEN out = SubSeq(v, 2, Len(v) - 1)
    ELSE IF Len(v) = 1 /\ v[1] \in Quotes
    THEN out \in {v, <<>>}
    ELSE out = v

\* C2: get_tag_context strips exactly one matching quote from each end of a
\* quoted attribute value and leaves every other value unchanged.
C2_UnquoteOnePair ==
    (tag_pc = "done" /\ matched_tag # None) =>
        LET attrs == matched_tag[1].attributes IN
        \A i \in 1..Len(attrs) :
            (\A j \in (i + 1)..Len(attrs) : attrs[j].name # attrs[i].name)
            => OnePairUnquoted(attrs[i].value,
                               tag_ctx[1].attributes[attrs[i].name])

\* C4: evaluate_math never raises, whatever the scanner and the evaluator do.
C4_MathNeverRaises ==
    math_pc = "done" => (math_outcome = "returned")

\* C5: whenever the resolved options are of type stylesheet, the engine is
\* handed lookAhead = false, whatever the caller asked for.
C5_StylesheetNoLookAhead ==
    (engine_calls = 1 /\ eng_opt[1].type = "stylesheet") =>
        /\ eng_opt[1].lookAhead = "false"
        /\ ext_result # None => ext_result[2].lookAhead = "false"

\* The caller asked for look-ahead on a stylesheet.
C5_Witness ==
    /\ engine_calls = 1
    /\ ext_opt_in # None
    /\ ext_opt_in[1].type = "stylesheet"
    /\ ext_opt_in[1].lookAhead = "true"
    /\ ext_result # None

\* The start of the scanned region: the smaller end of an explicit range,
\* the start of the line of a single offset.
ScannedStart ==
    IF ext_loc.kind = "int" THEN Line(buf, ext_loc.pt)[1]
    ELSE Min(ext_loc.a, ext_loc.b)

\* C6: a match the engine reports at (s, e, loc) relative to the scanned
\* region is returned at (s, e, loc) + the region's start, each shifted once,
\* and start <= location <= end still holds.
C6_AbsoluteMatch ==
    (ext_pc = "done" /\ ext_result # None) =>
        LET m == eng_ret[2]
            r == ext_result[1]
        IN /\ r.start = m.start + ScannedStart
           /\ r.end = m.end + ScannedStart
           /\ r.location = m.location + ScannedStart
           /\ r.start <= r.location /\ r.location <= r.end

\* A match inside an explicit range that does not start the buffer, with
\* the location strictly inside the match.
C6_Witness ==
    /\ ext_pc = "done"
    /\ ext_result # None
    /\ ext_loc.kind = "list"
    /\ ScannedStart > 0
    /\ ext_result[1].start < ext_result[1].location
    /\ ext_result[1].location < ext_result[1].end

\* C10: the offset handed to the engine lies inside the scanned text; for a
\* single offset the text is the line of that offset, for a range in either
\* orientation it starts at the smaller end and the offset is its length; a
\* location of another type gives None without resolver or engine.
C10_OffsetInsideText ==
    /\ engine_calls = 1 =>
          /\ 0 <= eng_pos /\ eng_pos <= Len(eng_text)
          /\ ext_begin = ScannedStart
          /\ ext_loc.kind = "int" =>
                /\ eng_pos = ext_loc.pt - ext_begin
                /\ eng_text = SubSeq(buf, ext_begin + 1, ext_begin + Len(eng_text))
                /\ \A k \in 1..Len(eng_text) : eng_text[k] # NL
                /\ ext_begin = 0 \/ buf[ext_begin] = NL
                /\ ext_begin + Len(eng_text) = Len(buf)
                      \/ buf[ext_begin + Len(eng_text) + 1] = NL
          /\ ext_loc.kind \in {"list", "region"} =>
                /\ eng_pos = Max(ext_loc.a, ext_loc.b) - Min(ext_loc.a, ext_loc.b)
                /\ eng_pos = Len(eng_text)
    /\ (ext_pc = "done" /\ ext_loc.kind = "other") =>
          /\ ext_result = None
          /\ ext_outcome = "returned"
          /\ resolver_calls = 0
          /\ engine_calls = 0

\* A range given backwards, [a, b] with a > b, reached the engine.
C10_Witness ==
    /\ engine_calls = 1
    /\ ext_loc.kind = "list"
    /\ ext_loc.a > ext_loc.b
    /\ eng_pos = Len(eng_text)
    /\ eng_pos > 0

\* C7: every step into or around the loop moves ctx_pos strictly backward,
\* never below -1, and the walk ends.
C7_WalkTerminates ==
    /\ [][css_pc' = "loop" =>
            ctx_pos' < (IF css_pc = "start" THEN css_pt ELSE ctx_pos)]_vars
    /\ [](ctx_pos >= -1)
    /\ <>(css_pc = "done")

\* A walk that went through several scopes and ran off the start of the
\* document.
C7_Witness ==
    /\ css_pc = "done"
    /\ ctx_pos = -1
    /\ css_pt >= 2

\* The context C8 describes: none unless the offset is in a property value;
\* otherwise look at the nearest character before the offset's scope that is
\* a property name, a section boundary or a selector: a property name gives
\* the text of its scope, anything else (or no such character) gives none.
ExpectedCssContext ==
    IF css_doc[css_pt + 1].kind # "value" THEN None
    ELSE LET s0 == extract_scope(css_doc, css_pt)[1]
             Q == {q \in 0..(s0 - 1) :
                      css_doc[q + 1].kind \in {"name", "section", "selector"}}
         IN IF Q = {} THEN None
            ELSE LET q == CHOOSE x \in Q : \A y \in Q : y <= x
                 IN IF css_doc[q + 1].kind = "name"
                    THEN Some([name |-> CssSubstr(extract_scope(css_doc, q))])
                    ELSE None

\* C8: get_css_context returns the nearest preceding property name when the
\* offset is inside a value and no boundary or selector comes first, and no
\* context otherwise.
C8_NearestPropertyName ==
    css_pc = "done" => css_result = ExpectedCssContext

\* A property name found across a separator, as in `color: red`.
C8_Witness ==
    /\ css_pc = "done"
    /\ css_result # None
    /\ scope_range[2] < extract_scope(css_doc, css_pt)[1]
    /\ scope_range[1] > 0

====
